---- MODULE Spec2Model ----
(***************************************************************************)
(* Model of main.py: a FastAPI service over one PostgreSQL table "items". *)
(* Every request runs on its own SQLAlchemy session (get_db); requests of *)
(* different workers interleave at the statements they send to the store. *)
(*                                                                         *)
(* A string is modelled run-length encoded: a sequence of runs <<c, n>>,   *)
(* n >= 1 copies of character c, adjacent runs of different characters.    *)
(* " " stands for any whitespace character, the others for non-whitespace. *)
(***************************************************************************)
EXTENDS Integers, Sequences, FiniteSets, TLC

VARIABLES
    table,   \* committed rows of the items table: a set of [id, title, description]
    seq,     \* next value of the store's id sequence of items.id
    pc,      \* per worker: position of the request it serves
    req,     \* per worker: the request being served
    sess,    \* per worker: state of the session get_db made for the request
    item,    \* per worker: the Item object the handler holds in its session
    resp,    \* per worker: the response of the request
    nreq     \* number of requests received so far

vars == <<table, seq, pc, req, sess, item, resp, nreq>>

\* -------------------------------------------------------------- bounds
MaxRequests == 3

Workers == {"w1", "w2"}

\* -------------------------------------------------------------- constants
MinTitleLength == 1
MaxTitleLength == 200

None == "None"
WS == " "

\* -------------------------------------------------------------- strings
RECURSIVE StrLen(_)
StrLen(s) == IF s = <<>> THEN 0 ELSE Head(s)[2] + StrLen(Tail(s))

RECURSIVE LStrip(_)
LStrip(s) ==
    IF s = <<>> THEN s
    ELSE IF Head(s)[1] = WS THEN LStrip(Tail(s)) ELSE s

RECURSIVE RStrip(_)
RStrip(s) ==
    IF s = <<>> THEN s
    ELSE IF s[Len(s)][1] = WS THEN RStrip(SubSeq(s, 1, Len(s) - 1)) ELSE s

Strip_LeftOnly(s) == LStrip(s)

Strip_Identity(s) == s

\* str.strip(): main.py line 89
Strip(s) == RStrip(LStrip(s))

\* the titles and descriptions requests are drawn from
TitleInputs ==
    { <<>>,                                        \* ""
      << <<WS, 3>> >>,                             \* "   "
      << <<WS, 1>>, <<"a", 1>>, <<WS, 2>> >>,      \* " a  "
      << <<"a", MaxTitleLength>> >>,               \* 200 characters
      << <<WS, 1>>, <<"a", MaxTitleLength>> >>,    \* 201 characters, 200 trimmed
      << <<"a", MaxTitleLength + 1>> >> }          \* 201 characters

DescriptionInputs == {None, "ch.1"}

\* the titles that requests send with a description as well as without one
DescribedTitleInputs ==
    { << <<WS, 1>>, <<"a", 1>>, <<WS, 2>> >>,
      << <<"a", MaxTitleLength>> >> }

\* the ids delete requests are drawn from: a delete leaves at most
\* MaxRequests - 1 requests to have created rows
ItemIds == 1..(MaxRequests - 1)

\* -------------------------------------------------------------- schema
ItemCreate_NoMinLength(title) == StrLen(title) <= MaxTitleLength

ItemCreate_TrimmedLength(title) ==
    /\ StrLen(title) >= MinTitleLength
    /\ StrLen(Strip(title)) <= MaxTitleLength

\* ItemCreate.title: Field(..., min_length=1, max_length=200), on the title as sent
ItemCreate(title) ==
    /\ StrLen(title) >= MinTitleLength
    /\ StrLen(title) <= MaxTitleLength

\* -------------------------------------------------------------- store
Ids(rows) == { r.id : r \in rows }

Nextval_Reuse(rows, s) == IF rows = {} THEN 1 ELSE 1 + Cardinality(rows)

\* the id INSERT takes from the sequence of the serial primary key
Nextval(rows, s) == s

OrderByIdDesc_Asc(rows) ==
    LET RECURSIVE Asc(_)
        Asc(rs) ==
            IF rs = {} THEN <<>>
            ELSE LET m == CHOOSE r \in rs : \A o \in rs : o.id >= r.id
                 IN  <<m>> \o Asc(rs \ {m})
    IN  Asc(rows)

\* db.query(Item).order_by(Item.id.desc()).all()
OrderByIdDesc(rows) ==
    LET RECURSIVE Desc(_)
        Desc(rs) ==
            IF rs = {} THEN <<>>
            ELSE LET m == CHOOSE r \in rs : \A o \in rs : o.id <= r.id
                 IN  <<m>> \o Desc(rs \ {m})
    IN  Desc(rows)

RowsById_Any(rows, id) == rows

\* db.query(Item).filter(Item.id == item_id).first(), also the SELECT of db.refresh
RowsById(rows, id) == { r \in rows : r.id = id }

DeleteWhereId_AtMost(rows, id) == { r \in rows : r.id > id }

\* DELETE FROM items WHERE id = :id
DeleteWhereId(rows, id) == { r \in rows : r.id # id }

\* -------------------------------------------------------------- requests
NoItem == [id |-> 0, title |-> <<>>, description |-> None]

NoResp == [status |-> 0, detail |-> "", items |-> <<>>, deleted |-> 0]

Requests ==
    { [kind |-> "create", title |-> t, description |-> None, item_id |-> 0] :
        t \in TitleInputs }
    \cup { [kind |-> "create", title |-> t, description |-> d, item_id |-> 0] :
        t \in DescribedTitleInputs, d \in DescriptionInputs }
    \cup { [kind |-> "list", title |-> <<>>, description |-> None, item_id |-> 0] }
    \cup { [kind |-> "delete", title |-> <<>>, description |-> None, item_id |-> i] :
        i \in ItemIds }

Error(status, detail) ==
    [status |-> status, detail |-> detail, items |-> <<>>, deleted |-> 0]

Init ==
    /\ table = {}
    /\ seq = 1
    /\ pc = [w \in Workers |-> "idle"]
    /\ req = [w \in Workers |-> [kind |-> "list", title |-> <<>>,
                                 description |-> None, item_id |-> 0]]
    /\ sess = [w \in Workers |-> "none"]
    /\ item = [w \in Workers |-> NoItem]
    /\ resp = [w \in Workers |-> NoResp]
    /\ nreq = 0

\* -------------------------------------------------------------- get_db
\* a request arrives; get_db makes its session and yields it to the handler
Receive(w) ==
    /\ pc[w] \in {"idle", "done"}
    /\ nreq < MaxRequests
    /\ \E r \in Requests :
        /\ req' = [req EXCEPT ![w] = r]
        /\ pc' = [pc EXCEPT ![w] = r.kind]
    /\ sess' = [sess EXCEPT ![w] = "open"]
    /\ item' = [item EXCEPT ![w] = NoItem]
    /\ resp' = [resp EXCEPT ![w] = NoResp]
    /\ nreq' = nreq + 1
    /\ UNCHANGED <<table, seq>>

GetDbFinally_OnlyOnSuccess(w) ==
    /\ pc[w] = "finally"
    /\ sess' = [sess EXCEPT ![w] = IF resp[w].status < 400 THEN "closed" ELSE @]
    /\ item' = [item EXCEPT ![w] = NoItem]
    /\ pc' = [pc EXCEPT ![w] = "done"]
    /\ UNCHANGED <<table, seq, req, resp, nreq>>

\* finally: db.close(), on return and on every exception of the handler
GetDbFinally(w) ==
    /\ pc[w] = "finally"
    /\ sess' = [sess EXCEPT ![w] = "closed"]
    /\ item' = [item EXCEPT ![w] = NoItem]
    /\ pc' = [pc EXCEPT ![w] = "done"]
    /\ UNCHANGED <<table, seq, req, resp, nreq>>

\* -------------------------------------------------------------- create_item
\* the body is validated against ItemCreate, then the title is stripped and
\* the Item is added to the session
CreateItemValidate(w) ==
    /\ pc[w] = "create"
    /\ IF ~ItemCreate(req[w].title)
       THEN /\ resp' = [resp EXCEPT ![w] = Error(422, "string length")]
            /\ pc' = [pc EXCEPT ![w] = "finally"]
            /\ item' = item
       ELSE IF Strip(req[w].title) = <<>>
       THEN /\ resp' = [resp EXCEPT ![w] = Error(400, "title is required")]
            /\ pc' = [pc EXCEPT ![w] = "finally"]
            /\ item' = item
       ELSE /\ item' = [item EXCEPT ![w] = [id |-> 0,
                                             title |-> Strip(req[w].title),
                                             description |-> req[w].description]]
            /\ pc' = [pc EXCEPT ![w] = "flush"]
            /\ resp' = resp
    /\ UNCHANGED <<table, seq, req, sess, nreq>>

\* db.commit(), first half: the flush sends the INSERT, the store assigns the id
CreateItemFlush(w) ==
    /\ pc[w] = "flush"
    /\ item' = [item EXCEPT ![w].id = Nextval(table, seq)]
    /\ seq' = seq + 1
    /\ pc' = [pc EXCEPT ![w] = "commit"]
    /\ UNCHANGED <<table, req, sess, resp, nreq>>

\* db.commit(), second half: COMMIT makes the row visible to the other sessions
CreateItemCommit(w) ==
    /\ pc[w] = "commit"
    /\ table' = table \cup {item[w]}
    /\ pc' = [pc EXCEPT ![w] = "refresh"]
    /\ UNCHANGED <<seq, req, sess, item, resp, nreq>>

\* db.refresh(item) reads the row back by its id; return item
CreateItemRefresh(w) ==
    /\ pc[w] = "refresh"
    /\ LET rows == RowsById(table, item[w].id)
       IN  IF rows = {}
           THEN /\ resp' = [resp EXCEPT ![w] = Error(500, "InvalidRequestError")]
                /\ item' = item
           ELSE \E r \in rows :
                /\ item' = [item EXCEPT ![w] = r]
                /\ resp' = [resp EXCEPT ![w] =
                        [status |-> 201, detail |-> "", items |-> <<r>>, deleted |-> 0]]
    /\ pc' = [pc EXCEPT ![w] = "finally"]
    /\ UNCHANGED <<table, seq, req, sess, nreq>>

\* -------------------------------------------------------------- list_items
ListItems(w) ==
    /\ pc[w] = "list"
    /\ resp' = [resp EXCEPT ![w] = [status |-> 200, detail |-> "",
                                    items |-> OrderByIdDesc(table), deleted |-> 0]]
    /\ pc' = [pc EXCEPT ![w] = "finally"]
    /\ UNCHANGED <<table, seq, req, sess, item, nreq>>

\* -------------------------------------------------------------- delete_item
\* the lookup by id, and the 404 when it finds no row
DeleteItemLookup(w) ==
    /\ pc[w] = "delete"
    /\ LET rows == RowsById(table, req[w].item_id)
       IN  IF rows = {}
           THEN /\ resp' = [resp EXCEPT ![w] = Error(404, "item not found")]
                /\ pc' = [pc EXCEPT ![w] = "finally"]
                /\ item' = item
           ELSE \E r \in rows :
                /\ item' = [item EXCEPT ![w] = r]
                /\ pc' = [pc EXCEPT ![w] = "delete_commit"]
                /\ resp' = resp
    /\ UNCHANGED <<table, seq, req, sess, nreq>>

DeleteItemCommit_StaleIsError(w) ==
    /\ pc[w] = "delete_commit"
    /\ table' = DeleteWhereId(table, item[w].id)
    /\ resp' = [resp EXCEPT ![w] =
            IF RowsById(table, item[w].id) = {}
            THEN Error(500, "StaleDataError")
            ELSE [status |-> 200, detail |-> "", items |-> <<>>,
                  deleted |-> req[w].item_id]]
    /\ pc' = [pc EXCEPT ![w] = "finally"]
    /\ UNCHANGED <<seq, req, sess, item, nreq>>

\* db.delete(item); db.commit(): DELETE of the row looked up, by its primary
\* key, and COMMIT.  A DELETE that matches no row, the row having been removed
\* by another session since the lookup, is no error for a mapper without a
\* version counter.
DeleteItemCommit(w) ==
    /\ pc[w] = "delete_commit"
    /\ table' = DeleteWhereId(table, item[w].id)
    /\ resp' = [resp EXCEPT ![w] = [status |-> 200, detail |-> "", items |-> <<>>,
                                    deleted |-> req[w].item_id]]
    /\ pc' = [pc EXCEPT ![w] = "finally"]
    /\ UNCHANGED <<seq, req, sess, item, nreq>>

\* -------------------------------------------------------------- store failure
\* the pcs at which the handler's next statement goes to the store
StoreSteps == {"flush", "commit", "refresh", "list", "delete", "delete_commit"}

\* the store is unreachable at a statement: the driver's error leaves the handler
StoreFailure(w) ==
    /\ pc[w] \in StoreSteps
    /\ resp' = [resp EXCEPT ![w] = Error(500, "OperationalError")]
    /\ pc' = [pc EXCEPT ![w] = "finally"]
    /\ UNCHANGED <<table, seq, req, sess, item, nreq>>

\* -------------------------------------------------------------- specification
\* the steps of a request while the store answers
Serve(w) ==
    \/ CreateItemValidate(w)
    \/ CreateItemFlush(w)
    \/ CreateItemCommit(w)
    \/ CreateItemRefresh(w)
    \/ ListItems(w)
    \/ DeleteItemLookup(w)
    \/ DeleteItemCommit(w)
    \/ GetDbFinally(w)

Handle(w) == Serve(w) \/ StoreFailure(w)

Next == \E w \in Workers : Receive(w) \/ Handle(w)

Spec == Init /\ [][Next]_vars

\* the runs in which the store is reachable throughout
NextReachable == \E w \in Workers : Receive(w) \/ Serve(w)

ReachableSpec == Init /\ [][NextReachable]_vars

\* a request that was received is served to its end
FairSpec == Spec /\ \A w \in Workers : WF_vars(Handle(w))

\* -------------------------------------------------------------- vocabulary of the properties
\* t consists of whitespace only (or of nothing)
Blank(t) == \A k \in 1..Len(t) : t[k][1] = WS

\* s is t without its leading and its trailing whitespace
IsTrimOf(s, t) ==
    \E i, j \in 0..Len(t) :
        /\ i <= j
        /\ s = SubSeq(t, i + 1, j)
        /\ \A k \in 1..i : t[k][1] = WS
        /\ \A k \in (j + 1)..Len(t) : t[k][1] = WS
        /\ s = <<>> \/ (s[1][1] # WS /\ s[Len(s)][1] # WS)

\* the request of w is under way or has just ended
Serving(w) == pc[w] # "idle"

Finished(w) == pc[w] = "done"

\* the store failed under the request of w
StoreFailed(w) == resp[w].status = 500 /\ resp[w].detail = "OperationalError"

Deleted(id) == [status |-> 200, detail |-> "", items |-> <<>>, deleted |-> id]

\* id was handed out by the sequence and belongs to no row, committed or not
Gone(id) ==
    /\ id < seq
    /\ id \notin Ids(table)
    /\ \A w \in Workers : ~(pc[w] = "commit" /\ item[w].id = id)

\* -------------------------------------------------------------- C1
\* C1: when create_item returns 201 and list_items runs next (no other create
\* having taken an id in between), the first element listed is the entity
\* create_item returned: its title is the request's title trimmed, its
\* description the request's description, its id the id returned.
C1_CreateThenListHead ==
    [][\A w \in Workers :
        (/\ pc[w] = "refresh"
         /\ resp'[w].status = 201
         /\ seq = resp'[w].items[1].id + 1)
        => LET out == resp'[w].items[1]
               listed == OrderByIdDesc(table')
           IN  /\ listed # <<>>
               /\ listed[1].id = out.id
               /\ listed[1] = out
               /\ req[w].title # <<>>
               /\ ~Blank(req[w].title)
               /\ IsTrimOf(out.title, req[w].title)
               /\ out.description = req[w].description]_vars

C1_Witness ==
    \E w \in Workers :
        /\ pc[w] = "finally"
        /\ resp[w].status = 201
        /\ req[w].title # resp[w].items[1].title
        /\ req[w].description # None
        /\ Cardinality(table) >= 2
        /\ OrderByIdDesc(table)[1] = resp[w].items[1]

\* -------------------------------------------------------------- C2
\* C2: no row of the items table ever has an empty or whitespace-only title; a
\* create_item request whose title is "" or whitespace only ends in a
\* validation error (422 or 400) and none of its steps changes the table.
C2_NoBlankTitle ==
    /\ [](\A r \in table : r.title # <<>> /\ ~Blank(r.title))
    /\ [](\A w \in Workers :
            (req[w].kind = "create" /\ Blank(req[w].title)
                /\ pc[w] \in {"finally", "done"})
            => resp[w].status \in {400, 422})
    /\ [][\A w \in Workers :
            (req[w].kind = "create" /\ Blank(req[w].title)
                /\ Serving(w) /\ ~Finished(w) /\ pc'[w] # pc[w])
            => table' = table]_vars

C2_Witness ==
    /\ table # {}
    /\ \E w \in Workers :
        /\ Finished(w)
        /\ req[w].kind = "create"
        /\ req[w].title = << <<WS, 3>> >>
        /\ resp[w].status = 400

\* -------------------------------------------------------------- C3
\* C3 as stated: with the store reachable a create request ends in 201 or in
\* 400 "title is required", and a title that is empty after trimming, ""
\* included, is answered with 400 "title is required".
C3_Original ==
    \A w \in Workers :
        (Finished(w) /\ req[w].kind = "create" /\ ~StoreFailed(w))
        => /\ \/ resp[w].status = 201
              \/ resp[w].status = 400 /\ resp[w].detail = "title is required"
           /\ Blank(req[w].title)
                => resp[w].status = 400 /\ resp[w].detail = "title is required"

\* C3 amended: with the store reachable a create request ends in 422 when the
\* title as sent is empty or longer than 200 characters, in 400 "title is
\* required" when it has 1 to 200 characters, all whitespace, and otherwise in
\* 201 with the created entity, or in 500 when the new row was deleted before
\* create_item read it back.
C3_Outcomes ==
    \A w \in Workers :
        (Finished(w) /\ req[w].kind = "create" /\ ~StoreFailed(w))
        => LET n == StrLen(req[w].title)
           IN  IF n < MinTitleLength \/ n > MaxTitleLength
               THEN resp[w].status = 422
               ELSE IF Blank(req[w].title)
               THEN resp[w].status = 400 /\ resp[w].detail = "title is required"
               ELSE \/ /\ resp[w].status = 201
                       /\ Len(resp[w].items) = 1
                       /\ resp[w].items[1].id >= 1
                    \/ /\ resp[w].status = 500
                       /\ resp[w].detail = "InvalidRequestError"

C3_Witness ==
    \E w, v \in Workers :
        /\ Finished(w) /\ Finished(v)
        /\ req[w].kind = "create" /\ req[w].title = <<>>
        /\ resp[w].status = 422
        /\ req[v].kind = "create" /\ req[v].title = << <<WS, 3>> >>
        /\ resp[v].status = 400

\* -------------------------------------------------------------- C4
\* C4: delete_item whose lookup finds no row with the id answers 404 "item not
\* found", and no step of a delete request that answers 404 changes the
\* table; so does a second delete of an id an earlier delete removed.
C4_DeleteAbsent ==
    /\ [][\A w \in Workers :
            (/\ pc[w] = "delete"
             /\ req[w].item_id \notin Ids(table)
             /\ pc'[w] # pc[w]
             /\ resp'[w].detail # "OperationalError")
            => /\ resp'[w] = Error(404, "item not found")
               /\ pc'[w] = "finally"
               /\ table' = table]_vars
    /\ [][\A w \in Workers :
            (/\ req[w].kind = "delete"
             /\ Serving(w) /\ ~Finished(w)
             /\ pc'[w] # pc[w]
             /\ resp'[w].status = 404)
            => table' = table]_vars
    /\ [](\A w \in Workers :
            (Finished(w) /\ req[w].kind = "delete" /\ Gone(req[w].item_id)
                /\ resp[w].status = 404)
            => resp[w].detail = "item not found")

C4_Witness ==
    \E w, v \in Workers :
        /\ Finished(w) /\ Finished(v)
        /\ req[w].kind = "delete" /\ req[v].kind = "delete"
        /\ req[w].item_id = req[v].item_id
        /\ resp[w] = Deleted(req[w].item_id)
        /\ resp[v] = Error(404, "item not found")
        /\ Gone(req[v].item_id)

\* -------------------------------------------------------------- C5
\* C5: the commit of a delete_item whose lookup found the row leaves the table
\* without a row of that id and with every other row as it was, and answers
\* {deleted: true, id}; the row removed is the one looked up; an id that is
\* gone stays gone, and no list_items returns it.
C5_DeleteExisting ==
    /\ [][\A w \in Workers :
            (/\ pc[w] = "delete_commit"
             /\ pc'[w] = "finally"
             /\ resp'[w].detail # "OperationalError")
            => /\ resp'[w] = Deleted(req[w].item_id)
               /\ table' = { r \in table : r.id # req[w].item_id }
               /\ req[w].item_id \in Ids(table) => table \ table' = {item[w]}
               /\ Gone(req[w].item_id)']_vars
    /\ [][\A i \in ItemIds : Gone(i) => Gone(i)']_vars
    /\ [][\A w \in Workers :
            (pc[w] = "list" /\ resp'[w].status = 200)
            => \A k \in 1..Len(resp'[w].items) : ~Gone(resp'[w].items[k].id)]_vars

C5_Witness ==
    \E w, v \in Workers :
        /\ Finished(w) /\ req[w].kind = "delete"
        /\ resp[w] = Deleted(req[w].item_id)
        /\ v # w
        /\ Gone(req[w].item_id)
        /\ Cardinality(table) = 1

\* -------------------------------------------------------------- C6
\* C6: list_items returns every row of the table, each once, in strictly
\* descending order of id, the empty sequence for the empty table, and leaves
\* the table as it is.
C6_ListAll ==
    [][\A w \in Workers :
        (pc[w] = "list" /\ resp'[w].status = 200)
        => LET out == resp'[w].items
           IN  /\ Len(out) = Cardinality(table)
               /\ { out[k] : k \in 1..Len(out) } = table
               /\ \A k \in 1..Len(out) : \A l \in 1..Len(out) :
                      k < l => out[k].id > out[l].id
               /\ table = {} => out = <<>>
               /\ table' = table]_vars

C6_Witness ==
    \E w \in Workers :
        /\ Finished(w) /\ req[w].kind = "list"
        /\ resp[w].status = 200
        /\ Len(resp[w].items) = 2
        /\ resp[w].items[1].id = 2
        /\ resp[w].items[2].id = 1

\* -------------------------------------------------------------- C7
\* C7: a request that has finished has its session closed, whatever way the
\* handler ended (return, 400, 404, 422, an error of the store), and every
\* session get_db opened is eventually closed.
C7_SessionClosed ==
    /\ [](\A w \in Workers : Finished(w) => sess[w] = "closed")
    /\ \A w \in Workers : (sess[w] = "open") ~> (sess[w] = "closed")

C7_Witness ==
    \E w, v \in Workers :
        /\ Finished(w) /\ Finished(v)
        /\ sess[w] = "closed" /\ sess[v] = "closed"
        /\ StoreFailed(w)
        /\ resp[v].status = 404

\* -------------------------------------------------------------- C8
\* C8: the ids of the rows of the table and of the items inserted and not yet
\* committed are pairwise distinct; a row stays in the table with the id,
\* title and description it was inserted with until a delete removes it (no
\* step changes a row or reuses its id); a row enters the table only with an
\* id no row has, and create_item returns the row as it was inserted.
C8_IdOnceRowsImmutable ==
    /\ [](\A r1 \in table : \A r2 \in table : r1.id = r2.id => r1 = r2)
    /\ [](\A w \in Workers : pc[w] = "commit" =>
            /\ item[w].id >= 1
            /\ item[w].id \notin Ids(table)
            /\ \A v \in Workers \ {w} :
                   pc[v] = "commit" => item[v].id # item[w].id)
    /\ [][\A r \in table : r.id \in Ids(table') => r \in table']_vars
    /\ [][\A r \in table' \ table :
            /\ r.id \notin Ids(table)
            /\ \E w \in Workers : pc[w] = "commit" /\ item[w] = r]_vars
    /\ [][\A w \in Workers :
            (pc[w] = "refresh" /\ resp'[w].status = 201)
            => resp'[w].items = <<item[w]>>]_vars
    /\ [][\A w \in Workers :
            (table' # table /\ pc'[w] # pc[w])
            => pc[w] \in {"commit", "delete_commit"}]_vars

C8_Witness ==
    /\ Cardinality(table) = 2
    /\ \E w \in Workers : pc[w] = "commit" /\ item[w].id = 3

\* -------------------------------------------------------------- C9
\* C9 as stated: create_item answers 201 exactly for the titles whose length
\* after trimming is 1 to 200, whatever their length as sent.
C9_Original ==
    \A w \in Workers :
        (Finished(w) /\ req[w].kind = "create" /\ resp[w].status # 500)
        => LET n == StrLen(Strip(req[w].title))
           IN  resp[w].status = 201
                   <=> (MinTitleLength <= n /\ n <= MaxTitleLength)

\* C9 amended: a valid title has 1 to 200 characters as sent, not all of them
\* whitespace; create_item answers 201, with the trimmed title in the row,
\* for exactly these titles, and rejects a title of more than 200 characters
\* as sent even when its trimmed length is at most 200.
C9_ValidTitle ==
    \A w \in Workers :
        (Finished(w) /\ req[w].kind = "create" /\ resp[w].status # 500)
        => LET n == StrLen(req[w].title)
           IN  /\ resp[w].status = 201
                   <=> /\ MinTitleLength <= n
                       /\ n <= MaxTitleLength
                       /\ ~Blank(req[w].title)
               /\ resp[w].status = 201 =>
                   /\ IsTrimOf(resp[w].items[1].title, req[w].title)
                   /\ StrLen(resp[w].items[1].title) >= MinTitleLength
                   /\ StrLen(resp[w].items[1].title) <= MaxTitleLength

C9_Witness ==
    \E w, v \in Workers :
        /\ Finished(w) /\ Finished(v)
        /\ req[w].kind = "create"
        /\ req[w].title = << <<WS, 1>>, <<"a", MaxTitleLength>> >>
        /\ resp[w].status = 422
        /\ req[v].kind = "create"
        /\ req[v].title = << <<"a", MaxTitleLength>> >>
        /\ resp[v].status = 201

\* -------------------------------------------------------------- C10
\* C10 as stated: of the delete_item requests for one id, at most one answers
\* {deleted: true, id}.
C10_Original ==
    \A w \in Workers : \A v \in Workers \ {w} :
        (/\ Finished(w) /\ Finished(v)
         /\ req[w].kind = "delete" /\ req[v].kind = "delete"
         /\ req[w].item_id = req[v].item_id)
        => ~(resp[w].status = 200 /\ resp[v].status = 200)

\* C10 amended: with the store reachable each delete_item request ends with
\* {deleted: true, id} or with 404 "item not found": 404 exactly when its
\* lookup finds no row, {deleted: true, id} whenever its lookup found the row,
\* also when another request has removed the row since (its DELETE then
\* matches no row and changes nothing); so several concurrent requests may
\* answer {deleted: true, id}, and the row leaves the table once.
C10_ConcurrentDelete ==
    /\ [](\A w \in Workers :
            (Finished(w) /\ req[w].kind = "delete" /\ ~StoreFailed(w))
            => \/ resp[w] = Error(404, "item not found")
               \/ resp[w] = Deleted(req[w].item_id) /\ Gone(req[w].item_id))
    /\ [][\A w \in Workers :
            (pc[w] = "delete" /\ pc'[w] # pc[w]
                /\ resp'[w].detail # "OperationalError")
            => (resp'[w].status = 404 <=> req[w].item_id \notin Ids(table))]_vars
    /\ [][\A w \in Workers :
            (/\ pc[w] = "delete_commit" /\ pc'[w] # pc[w]
             /\ resp'[w].detail # "OperationalError"
             /\ req[w].item_id \notin Ids(table))
            => resp'[w] = Deleted(req[w].item_id) /\ table' = table]_vars

C10_Witness ==
    \E w \in Workers : \E v \in Workers \ {w} :
        /\ Finished(w) /\ Finished(v)
        /\ req[w].kind = "delete" /\ req[v].kind = "delete"
        /\ req[w].item_id = req[v].item_id
        /\ resp[w] = Deleted(req[w].item_id)
        /\ resp[v] = Deleted(req[v].item_id)

====
